---- MODULE Spec2Model ----
(***************************************************************************)
(* EduVote: election lifecycle (status engine) and ballot-casting engine.  *)
(*                                                                         *)
(* The service layer is Controller/database_service.py (class Database)    *)
(* driven by Controller/controller_elections.py.  Every handler opens its  *)
(* own SQLAlchemy session (autoflush off) on MySQL/InnoDB: its reads come   *)
(* from one snapshot and its writes are flushed together at commit.        *)
(*                                                                         *)
(* The specifications share the variables:                                 *)
(*   SpecStatus      the status engine, one call at a time: create, update, *)
(*                   set-status, delete, the reads that run the passive     *)
(*                   sync, and the passing of days;                        *)
(*   SpecSync        the status engine with the lists of several clients   *)
(*                   split at their commit;                                *)
(*   SpecRecompute   recomputations of several clients alone, on one day;  *)
(*   SpecExpected    the two derivations of a status from dates;           *)
(*   SpecEligible    Election.is_user_eligible;                            *)
(*   Spec            the ballot core under concurrent clients:             *)
(*                   cast_ballot_votes and cast_vote, split at the commit; *)
(*   SpecAdmin       one client at a time together with the administration *)
(*                   that touches the ballot log (delete_voter,            *)
(*                   delete_candidate, assign_candidate_to_position);      *)
(*   SpecAnyElection one client casting, the election and the voters in    *)
(*                   any state.                                            *)
(* The results aggregator is an operator over the state.                   *)
(***************************************************************************)
EXTENDS Integers, Sequences, FiniteSets, Bags, TLC

\* ---------------------------------------------------------------- bounds
MaxDay == 2
MaxElections == 1
MaxRecords == 2     \* ballot lines written or in flight
MaxLines == 2       \* line items of one ballot
MaxAdminOps == 1    \* voter/candidate administration steps

\* ------------------------------------------------------------- constants
\* Python None / SQL NULL for a date, an id or a status.
NoDate == 0
NoId == 0
NoStatus == "none"
NoElection == [absent |-> TRUE]

Days == 1..MaxDay
Dates == {NoDate} \cup Days
ElectionIds == 1..MaxElections
Statuses == {"upcoming", "active", "finalized"}

NoCandidate == [absent |-> TRUE]
NoGrade == 0
NoSection == "none"
NoQuestion == [asked |-> FALSE]
NoCall == [idle |-> TRUE]
NoSync == [idle |-> TRUE]

VARIABLES
    today,       \* date.today()
    elections,   \* table elections: id -> row or NoElection
    out,         \* message returned by the last election-controller call
    listed,      \* statuses shown by the last list of all elections
    eligible,    \* an election's restrictions, a user's grade and section, the answer
    syncs,       \* per client session: the list of all elections between its query and its commit
    users,       \* table users: the ids present
    positions,   \* table positions: id -> election_id
    candidates,  \* table candidates: id -> row or NoCandidate
    records,     \* table voting_records: a bag of rows (record_id, voted_at left out)
    calls,       \* per client session: the cast call between its reads and its commit
    ret,         \* message returned by the last cast call
    adminOps     \* administration steps taken

statusVars == <<today, elections, out, listed, eligible, syncs>>
ballotVars == <<users, positions, candidates, records, calls, ret, adminOps>>
vars == <<today, elections, out, listed, eligible, syncs, users, positions, candidates, records, calls, ret, adminOps>>

\* The tables as the administrator set them up before voting opens
\* (create_election, create_position, create_candidate, assign_candidate_to_position).
SetupUsers == {1, 2}
SetupElections ==
    <<[start_date |-> 1, end_date |-> 2, status |-> "active", status_locked |-> FALSE],
      [start_date |-> 2, end_date |-> 2, status |-> "upcoming", status_locked |-> FALSE]>>
SetupPositions == <<1, 1>>
SetupCandidates ==
    <<[election_id |-> 1, position_id |-> 1, vote_count |-> 0],
      [election_id |-> 1, position_id |-> NoId, vote_count |-> 0]>>
Sessions == {1, 2}

UserIds == SetupUsers
BallotElectionIds == DOMAIN SetupElections
PositionIds == DOMAIN SetupPositions
CandidateIds == DOMAIN SetupCandidates

\* ------------------------------------------------------- status engine
\* A variant that derives a status only when both dates are set.
status_needing_both_dates(start_date, end_date, t) ==
    IF start_date = NoDate \/ end_date = NoDate THEN NoStatus
    ELSE IF t < start_date THEN "upcoming"
    ELSE IF t > end_date THEN "finalized"
    ELSE "active"

\* Database._compute_status_from_dates
compute_status_from_dates(start_date, end_date, t) ==
    IF start_date # NoDate /\ t < start_date THEN "upcoming"
    ELSE IF end_date # NoDate /\ t > end_date THEN "finalized"
    ELSE IF start_date # NoDate /\ end_date # NoDate /\ start_date <= t /\ t <= end_date
        THEN "active"
    ELSE IF start_date # NoDate /\ end_date = NoDate /\ t >= start_date THEN "active"
    ELSE IF end_date # NoDate /\ start_date = NoDate
        THEN (IF t <= end_date THEN "active" ELSE "finalized")
    ELSE NoStatus

\* controller_elections._expected_status (same table, computed by the controller)
expected_status(start_date, end_date, t) ==
    IF start_date # NoDate /\ t < start_date THEN "upcoming"
    ELSE IF end_date # NoDate /\ t > end_date THEN "finalized"
    ELSE IF start_date # NoDate /\ end_date # NoDate /\ start_date <= t /\ t <= end_date
        THEN "active"
    ELSE IF start_date # NoDate /\ end_date = NoDate /\ t >= start_date THEN "active"
    ELSE IF end_date # NoDate /\ start_date = NoDate
        THEN (IF t <= end_date THEN "active" ELSE "finalized")
    ELSE NoStatus

\* A variant of the validation that checks the order of the dates only.
validate_order_only(start_date, end_date, t) ==
    IF start_date # NoDate /\ end_date # NoDate /\ end_date < start_date
        THEN "End date cannot be earlier than start date."
    ELSE "ok"

\* controller_elections._validate_election_dates: "ok" or the message
validate_election_dates(start_date, end_date, t) ==
    IF start_date # NoDate /\ start_date < t THEN "Start date cannot be before today."
    ELSE IF end_date # NoDate /\ end_date < t THEN "End date cannot be before today."
    ELSE IF start_date # NoDate /\ end_date # NoDate /\ end_date < start_date
        THEN "End date cannot be earlier than start date."
    ELSE "ok"

\* A variant of the sync that ignores the lock.
sync_ignoring_lock(els, ids, t) ==
    [e \in ElectionIds |->
        IF e \in ids /\ els[e] # NoElection
        THEN LET new_status == compute_status_from_dates(els[e].start_date, els[e].end_date, t)
             IN IF new_status # NoStatus /\ els[e].status # new_status
                THEN [els[e] EXCEPT !.status = new_status]
                ELSE els[e]
        ELSE els[e]]

\* Database._sync_election_statuses over the rows `ids`, committed
sync_election_statuses(els, ids, t) ==
    [e \in ElectionIds |->
        IF e \in ids /\ els[e] # NoElection /\ ~els[e].status_locked
        THEN LET new_status == compute_status_from_dates(els[e].start_date, els[e].end_date, t)
             IN IF new_status # NoStatus /\ els[e].status # new_status
                THEN [els[e] EXCEPT !.status = new_status]
                ELSE els[e]
        ELSE els[e]]

\* A variant of update_election that never writes status_locked.
db_update_election_unlocked(els, id, start_date, end_date, status, lock) ==
    [els EXCEPT ![id] = [start_date |-> start_date, end_date |-> end_date,
                         status |-> status, status_locked |-> els[id].status_locked]]

\* A variant of update_election that clears status_locked unless the caller sets it.
db_update_election_relocking(els, id, start_date, end_date, status, lock) ==
    [els EXCEPT ![id] = [start_date |-> start_date, end_date |-> end_date,
                         status |-> status, status_locked |-> (lock = "lock")]]

\* Database.update_election on an existing row: status_locked is written only
\* when the caller passes it (lock = "keep" is the default None).
db_update_election(els, id, start_date, end_date, status, lock) ==
    [els EXCEPT ![id] = [start_date |-> start_date, end_date |-> end_date,
                         status |-> status,
                         status_locked |-> IF lock = "keep" THEN els[id].status_locked
                                           ELSE lock = "lock"]]

\* A variant of create_election that stores the submitted status whatever the dates.
CreateElection_as_submitted(start_date, end_date, status) ==
    LET v == validate_election_dates(start_date, end_date, today)
        stored == IF status = NoStatus THEN "upcoming" ELSE status
    IN
    /\ today' = today /\ listed' = listed /\ eligible' = eligible /\ syncs' = syncs /\ UNCHANGED ballotVars
    /\ IF v # "ok"
       THEN /\ out' = v
            /\ elections' = elections
       ELSE /\ \E id \in ElectionIds :
                /\ elections[id] = NoElection
                /\ \A j \in ElectionIds : j < id => elections[j] # NoElection
                /\ elections' = [elections EXCEPT ![id] =
                        [start_date |-> start_date, end_date |-> end_date,
                         status |-> stored, status_locked |-> FALSE]]
            /\ out' = "Election created successfully!"

\* controller create_election -> Database.create_election
CreateElection(start_date, end_date, status) ==
    LET v == validate_election_dates(start_date, end_date, today)
        expected == expected_status(start_date, end_date, today)
        stored == IF expected # NoStatus THEN expected
                  ELSE IF status = NoStatus THEN "upcoming" ELSE status
    IN
    /\ today' = today /\ listed' = listed /\ eligible' = eligible /\ syncs' = syncs /\ UNCHANGED ballotVars
    /\ IF v # "ok"
       THEN /\ out' = v
            /\ elections' = elections
       ELSE /\ \E id \in ElectionIds :
                /\ elections[id] = NoElection
                /\ \A j \in ElectionIds : j < id => elections[j] # NoElection
                /\ elections' = [elections EXCEPT ![id] =
                        [start_date |-> start_date, end_date |-> end_date,
                         status |-> stored, status_locked |-> FALSE]]
            /\ out' = "Election created successfully!"

\* A variant of update_election that stores the submitted status as it is.
UpdateElection_uncoerced(id, start_date, end_date, status) ==
    LET v == validate_election_dates(start_date, end_date, today)
    IN
    /\ today' = today /\ listed' = listed /\ eligible' = eligible /\ syncs' = syncs /\ UNCHANGED ballotVars
    /\ IF v # "ok"
       THEN out' = v /\ elections' = elections
       ELSE IF elections[id] = NoElection
       THEN out' = "Election not found." /\ elections' = elections
       ELSE /\ elections' = db_update_election(elections, id, start_date, end_date, status, "keep")
            /\ out' = "Election updated successfully!"

\* controller update_election -> Database.update_election
UpdateElection(id, start_date, end_date, status) ==
    LET v == validate_election_dates(start_date, end_date, today)
        expected == expected_status(start_date, end_date, today)
        stored == IF expected # NoStatus /\ status # expected THEN expected ELSE status
    IN
    /\ today' = today /\ listed' = listed /\ eligible' = eligible /\ syncs' = syncs /\ UNCHANGED ballotVars
    /\ IF v # "ok"
       THEN out' = v /\ elections' = elections
       ELSE IF elections[id] = NoElection
       THEN out' = "Election not found." /\ elections' = elections
       ELSE /\ elections' = db_update_election(elections, id, start_date, end_date, stored, "keep")
            /\ out' = "Election updated successfully!"

\* status = (status or "").strip().lower(); "ended" is an alias of "finalized"
normalize_status(status) == IF status = "ended" THEN "finalized" ELSE status

\* The reason a mismatched request is rejected with
reject_reason(status) ==
    IF status = "active" THEN "Cannot set to Active outside the election date range."
    ELSE IF status = "finalized" THEN "Cannot set to Ended before the election end date."
    ELSE IF status = "upcoming" THEN "Cannot set to Upcoming once the election has started."
    ELSE "Election status must match the configured dates."

\* A variant of set_election_status that coerces a mismatched request to the
\* expected status instead of rejecting it.
SetStatus_coercing(id, requested, force) ==
    LET synced == sync_election_statuses(elections, {id}, today)
        status == normalize_status(requested)
    IN
    /\ today' = today /\ listed' = listed /\ eligible' = eligible /\ syncs' = syncs /\ UNCHANGED ballotVars
    /\ IF elections[id] = NoElection
       THEN /\ out' = "Election not found."
            /\ elections' = elections
       ELSE LET expected == expected_status(synced[id].start_date, synced[id].end_date, today)
                stored == IF expected # NoStatus /\ status # expected /\ ~force
                          THEN expected ELSE status
            IN /\ out' = IF stored = status THEN "Election updated successfully!"
                         ELSE reject_reason(status)
               /\ elections' = db_update_election(synced, id, synced[id].start_date,
                                                  synced[id].end_date, stored, "lock")

\* controller set_election_status: get_election_by_id (which runs the passive
\* sync on the row and commits it), the date check, then
\* Database.update_election(..., status_locked=True) with the row as read.
SetStatus(id, requested, force) ==
    LET synced == sync_election_statuses(elections, {id}, today)
        status == normalize_status(requested)
    IN
    /\ today' = today /\ listed' = listed /\ eligible' = eligible /\ syncs' = syncs /\ UNCHANGED ballotVars
    /\ IF elections[id] = NoElection
       THEN /\ out' = "Election not found."
            /\ elections' = elections
       ELSE LET expected == expected_status(synced[id].start_date, synced[id].end_date, today)
            IN IF expected # NoStatus /\ status # expected /\ ~force
               THEN /\ out' = reject_reason(status)
                    /\ elections' = synced
               ELSE /\ out' = "Election updated successfully!"
                    /\ elections' = db_update_election(synced, id, synced[id].start_date,
                                                       synced[id].end_date, status, "lock")

DELETE_DISABLED == "Deleting elections is disabled. Set status to finalized instead."

\* A variant that removes the row, as the service method Database.delete_election does.
DeleteElection_removing(id) ==
    /\ today' = today /\ listed' = listed /\ eligible' = eligible /\ syncs' = syncs /\ UNCHANGED ballotVars
    /\ IF elections[id] = NoElection
       THEN out' = "Election not found." /\ elections' = elections
       ELSE /\ elections' = [elections EXCEPT ![id] = NoElection]
            /\ out' = "Election deleted successfully!"

\* controller delete_election: answers the refusal and calls nothing
DeleteElection(id) ==
    /\ out' = DELETE_DISABLED
    /\ elections' = elections
    /\ today' = today /\ listed' = listed /\ eligible' = eligible /\ syncs' = syncs /\ UNCHANGED ballotVars

\* [e.to_dict() for e in elections]: the status each listed row shows
listed_statuses(els) ==
    [e \in ElectionIds |-> IF els[e] = NoElection THEN NoStatus ELSE els[e].status]

\* A variant of the listing that shows the rows as they were before the sync.
ListElections_unsynced ==
    /\ elections' = sync_election_statuses(elections, ElectionIds, today)
    /\ listed' = listed_statuses(elections)
    /\ out' = "read"
    /\ today' = today /\ eligible' = eligible /\ syncs' = syncs /\ UNCHANGED ballotVars

\* Database.get_all_elections (ListElections): the sync, then the list
ListElections ==
    /\ elections' = sync_election_statuses(elections, ElectionIds, today)
    /\ listed' = listed_statuses(sync_election_statuses(elections, ElectionIds, today))
    /\ out' = "read"
    /\ today' = today /\ eligible' = eligible /\ syncs' = syncs /\ UNCHANGED ballotVars

\* Database.get_election_by_id (GetElection)
GetElection(id) ==
    /\ elections' = sync_election_statuses(elections, {id}, today)
    /\ out' = "read"
    /\ today' = today /\ listed' = listed /\ eligible' = eligible /\ syncs' = syncs /\ UNCHANGED ballotVars

\* Database.get_user_allowed_elections for an existing user
GetUserAllowedElections ==
    /\ elections' = sync_election_statuses(elections, ElectionIds, today)
    /\ out' = "read"
    /\ today' = today /\ listed' = listed /\ eligible' = eligible /\ syncs' = syncs /\ UNCHANGED ballotVars

\* Database.get_election_results (runs _sync_all_elections first)
GetElectionResults ==
    /\ elections' = sync_election_statuses(elections, ElectionIds, today)
    /\ out' = "read"
    /\ today' = today /\ listed' = listed /\ eligible' = eligible /\ syncs' = syncs /\ UNCHANGED ballotVars

\* Database.get_admin_stats (runs _sync_all_elections first)
GetAdminStats ==
    /\ elections' = sync_election_statuses(elections, ElectionIds, today)
    /\ out' = "read"
    /\ today' = today /\ listed' = listed /\ eligible' = eligible /\ syncs' = syncs /\ UNCHANGED ballotVars

\* A passive-sync read of any kind
PassiveRead ==
    \/ ListElections
    \/ \E id \in ElectionIds : GetElection(id)
    \/ GetUserAllowedElections
    \/ GetElectionResults
    \/ GetAdminStats

\* date.today() moves on to the next day
AdvanceDay ==
    /\ today < MaxDay
    /\ today' = today + 1
    /\ UNCHANGED <<elections, out, listed, eligible, syncs>> /\ UNCHANGED ballotVars

\* The state after construction (init_db on an empty database) ...
InitStatus ==
    /\ today = 1
    /\ elections = [e \in ElectionIds |-> NoElection]
    /\ out = "start"
    /\ listed = [e \in ElectionIds |-> NoStatus]
    /\ syncs = [s \in Sessions |-> NoSync]
    /\ eligible = NoQuestion
    /\ users = {}
    /\ positions = <<>>
    /\ candidates = <<>>
    /\ records = EmptyBag
    /\ calls = [s \in Sessions |-> NoCall]
    /\ ret = "start"
    /\ adminOps = 0

NextStatus ==
    \/ \E s \in Dates, e \in Dates, st \in Statuses \cup {NoStatus} : CreateElection(s, e, st)
    \/ \E id \in ElectionIds, s \in Dates, e \in Dates, st \in Statuses :
            UpdateElection(id, s, e, st)
    \/ \E id \in ElectionIds, st \in Statuses \cup {"ended"}, force \in BOOLEAN :
            SetStatus(id, st, force)
    \/ \E id \in ElectionIds : DeleteElection(id)
    \/ ListElections
    \/ \E id \in ElectionIds : GetElection(id)
    \/ GetUserAllowedElections
    \/ GetElectionResults
    \/ GetAdminStats
    \/ AdvanceDay

SpecStatus == InitStatus /\ [][NextStatus]_vars

\* ------------------------------------- status engine, concurrent clients
\* A variant of the sync that moves a stale row one stage on from the status loaded.
pending_next_stage(row, t) ==
    IF row = NoElection \/ row.status_locked THEN NoStatus
    ELSE LET new_status == compute_status_from_dates(row.start_date, row.end_date, t)
         IN IF new_status # NoStatus /\ row.status # new_status
            THEN (IF row.status = "upcoming" THEN "active" ELSE new_status)
            ELSE NoStatus

\* The status _sync_election_statuses assigns to a row it has loaded, to be
\* written at session.commit() (NoStatus: the row is left as it is)
pending_status(row, t) ==
    IF row = NoElection \/ row.status_locked THEN NoStatus
    ELSE LET new_status == compute_status_from_dates(row.start_date, row.end_date, t)
         IN IF new_status # NoStatus /\ row.status # new_status THEN new_status ELSE NoStatus

\* Database.get_all_elections up to session.commit(): the query, date.today()
\* and the loop of _sync_election_statuses over the rows as loaded
ListElectionsBegin(s) ==
    /\ syncs[s] = NoSync /\ \A t \in Sessions : t < s => syncs[t] # NoSync
    /\ syncs' = [syncs EXCEPT ![s] =
            [pending |-> [e \in ElectionIds |-> pending_status(elections[e], today)],
             loaded |-> listed_statuses(elections)]]
    /\ UNCHANGED <<today, elections, out, listed, eligible>> /\ UNCHANGED ballotVars

\* The rows after the UPDATEs of the pending assignments (status only)
write_pending(els, pending) ==
    [e \in ElectionIds |->
        IF pending[e] # NoStatus /\ els[e] # NoElection
        THEN [els[e] EXCEPT !.status = pending[e]]
        ELSE els[e]]

\* Database.get_all_elections: session.commit() when a status was assigned,
\* then to_dict() of the rows (reloaded after a commit, as loaded otherwise)
ListElectionsCommit(s) ==
    /\ syncs[s] # NoSync
    /\ syncs' = [syncs EXCEPT ![s] = NoSync]
    /\ elections' = write_pending(elections, syncs[s].pending)
    /\ listed' = IF \E e \in ElectionIds : syncs[s].pending[e] # NoStatus
                 THEN listed_statuses(write_pending(elections, syncs[s].pending))
                 ELSE syncs[s].loaded
    /\ out' = "read"
    /\ today' = today /\ eligible' = eligible /\ UNCHANGED ballotVars

NextSync ==
    \/ \E s \in Dates, e \in Dates, st \in Statuses \cup {NoStatus} : CreateElection(s, e, st)
    \/ \E id \in ElectionIds, s \in Dates, e \in Dates, st \in Statuses :
            UpdateElection(id, s, e, st)
    \/ \E id \in ElectionIds, st \in Statuses \cup {"ended"}, force \in BOOLEAN :
            SetStatus(id, st, force)
    \/ \E s \in Sessions : ListElectionsBegin(s)
    \/ \E s \in Sessions : ListElectionsCommit(s)
    \/ AdvanceDay

\* The status engine with the lists of several clients interleaved
SpecSync == InitStatus /\ [][NextSync]_vars

\* Any stored row, locked or not, on any day
InitRecompute ==
    /\ today \in Days
    /\ elections \in [ElectionIds ->
            [start_date : Dates, end_date : Dates, status : Statuses, status_locked : BOOLEAN]]
    /\ out = "start"
    /\ listed = [e \in ElectionIds |-> NoStatus]
    /\ syncs = [s \in Sessions |-> NoSync]
    /\ eligible = NoQuestion
    /\ users = {}
    /\ positions = <<>>
    /\ candidates = <<>>
    /\ records = EmptyBag
    /\ calls = [s \in Sessions |-> NoCall]
    /\ ret = "start"
    /\ adminOps = 0

NextRecompute ==
    \/ \E s \in Sessions : ListElectionsBegin(s)
    \/ \E s \in Sessions : ListElectionsCommit(s)

\* Recomputations of several clients interleaved, on one day, nothing else running
SpecRecompute == InitRecompute /\ [][NextRecompute]_vars

\* The two derivations applied to dates and a day drawn from the bounded sets
\* Database._compute_status_from_dates(e.start_date, e.end_date, today)
ComputeStatusFromDates(id) ==
    /\ elections[id] # NoElection
    /\ out' = compute_status_from_dates(elections[id].start_date, elections[id].end_date, today)
    /\ UNCHANGED <<today, elections, listed, eligible, syncs>> /\ UNCHANGED ballotVars

\* controller_elections._expected_status(start_date, end_date)
ExpectedStatus(id) ==
    /\ elections[id] # NoElection
    /\ out' = expected_status(elections[id].start_date, elections[id].end_date, today)
    /\ UNCHANGED <<today, elections, listed, eligible, syncs>> /\ UNCHANGED ballotVars

\* Any stored row and any day
InitExpected ==
    /\ today \in Days
    /\ elections \in [ElectionIds ->
            [start_date : Dates, end_date : Dates, status : Statuses, status_locked : {FALSE}]]
    /\ out = "start"
    /\ listed = [e \in ElectionIds |-> NoStatus]
    /\ syncs = [s \in Sessions |-> NoSync]
    /\ eligible = NoQuestion
    /\ users = {}
    /\ positions = <<>>
    /\ candidates = <<>>
    /\ records = EmptyBag
    /\ calls = [s \in Sessions |-> NoCall]
    /\ ret = "start"
    /\ adminOps = 0

NextExpected ==
    \/ \E id \in ElectionIds : ComputeStatusFromDates(id)
    \/ \E id \in ElectionIds : ExpectedStatus(id)

SpecExpected == InitExpected /\ [][NextExpected]_vars

\* ------------------------------------------------------------ eligibility
\* Values of elections.allowed_grade, users.grade_level, allowed_section and
\* section as they can come out of the row
AllowedGrades == {"none", "11", "12"}
GradeLevels == {"none", "11", "12", "011", "abc"}
SectionValues == {NoSection, "", "ALL", "all", "A", "a ", "B"}

\* int(value), with None for a missing value and for a ValueError
parse_grade(g) ==
    CASE g = "11" -> 11
      [] g = "011" -> 11
      [] g = "12" -> 12
      [] OTHER -> NoGrade

\* A variant that compares sections as they are written.
section_as_written(sec) == IF sec = NoSection THEN "" ELSE sec

\* (value or "").strip().upper()
normalized_section(sec) ==
    CASE sec = NoSection -> ""
      [] sec = "" -> ""
      [] sec = "ALL" -> "ALL"
      [] sec = "all" -> "ALL"
      [] sec = "A" -> "A"
      [] sec = "a " -> "A"
      [] sec = "B" -> "B"

\* Election.is_user_eligible
is_user_eligible(allowed_grade, allowed_section, grade_level, section) ==
    IF parse_grade(allowed_grade) # NoGrade
            /\ parse_grade(grade_level) # parse_grade(allowed_grade)
        THEN FALSE
    ELSE IF normalized_section(allowed_section) # ""
            /\ normalized_section(allowed_section) # "ALL"
            /\ normalized_section(section) # normalized_section(allowed_section)
        THEN FALSE
    ELSE TRUE

\* e.is_user_eligible(user) on the row and the user as read
IsEligible ==
    /\ eligible # NoQuestion /\ eligible.result = "unknown"
    /\ eligible' = [eligible EXCEPT !.result =
            IF is_user_eligible(eligible.allowed_grade, eligible.allowed_section,
                                eligible.grade_level, eligible.section)
            THEN "eligible" ELSE "ineligible"]
    /\ UNCHANGED <<today, elections, out, listed, syncs>> /\ UNCHANGED ballotVars

\* Any election restrictions and any user
InitEligible ==
    /\ eligible \in [allowed_grade : AllowedGrades, allowed_section : SectionValues,
                      grade_level : GradeLevels, section : SectionValues,
                      result : {"unknown"}]
    /\ today = 1
    /\ elections = [e \in ElectionIds |-> NoElection]
    /\ out = "start"
    /\ listed = [e \in ElectionIds |-> NoStatus]
    /\ syncs = [s \in Sessions |-> NoSync]
    /\ users = {}
    /\ positions = <<>>
    /\ candidates = <<>>
    /\ records = EmptyBag
    /\ calls = [s \in Sessions |-> NoCall]
    /\ ret = "start"
    /\ adminOps = 0

NextEligible == IsEligible

SpecEligible == InitEligible /\ [][NextEligible]_vars

\* --------------------------------------------------------- ballot core
ALREADY_POSITIONS == "You have already voted for one or more positions in this election."
ALREADY_POSITION == "You have already voted for this position in this election."
ALREADY_ELECTION == "You have already voted in this election."
BALLOT_OK == "Ballot submitted successfully!"
VOTE_OK == "Vote cast successfully!"
NOT_FOUND == "Candidate not found."
BALLOT_FAILED == "Failed to submit ballot"
VOTE_FAILED == "Failed to cast vote"

\* One line item of a ballot: {"position_id": ..., "candidate_id": ...}
Lines == [position_id : {NoId} \cup PositionIds, candidate_id : {NoId} \cup CandidateIds]
Ballots == UNION {[1..n -> Lines] : n \in 0..MaxLines}

\* session.query(VotingRecord).filter(user_id, election_id, position_id).first()
has_record(recs, u, e, p) ==
    \E r \in BagToSet(recs) : r.user_id = u /\ r.election_id = e /\ r.position_id = p

\* session.query(VotingRecord).filter(user_id, election_id).first()
has_record_in_election(recs, u, e) ==
    \E r \in BagToSet(recs) : r.user_id = u /\ r.election_id = e

\* The row cast_ballot_votes adds for one line item
line_record(u, e, line) ==
    [user_id |-> u, election_id |-> e, position_id |-> line.position_id,
     candidate_id |-> line.candidate_id,
     status |-> IF line.candidate_id # NoId THEN "cast" ELSE "spoiled"]

\* A variant that writes the first line item only.
first_line_bag(u, e, votes) ==
    IF votes = <<>> THEN EmptyBag ELSE SetToBag({line_record(u, e, Head(votes))})

RECURSIVE lines_bag(_, _, _)
lines_bag(u, e, votes) ==
    IF votes = <<>> THEN EmptyBag
    ELSE SetToBag({line_record(u, e, Head(votes))}) (+) lines_bag(u, e, Tail(votes))

\* Number of cast lines of the ballot that name candidate c
cast_lines(votes, c) == Cardinality({i \in DOMAIN votes : votes[i].candidate_id = c})

\* The vote_count each named candidate had when the call read it (-1: no such row)
seen_counts(votes) ==
    [c \in CandidateIds |->
        IF cast_lines(votes, c) = 0 THEN 0
        ELSE IF candidates[c] = NoCandidate THEN -1
        ELSE candidates[c].vote_count]

\* A table without the index.
unique_index_absent(recs, u, e, votes) == TRUE

\* The legacy index uniq_user_election on (user_id, election_id).
unique_index_per_election(recs, u, e, votes) ==
    ~has_record_in_election(recs, u, e) /\ Len(votes) <= 1

\* An index that compares the new rows with the stored ones only.
unique_index_against_stored(recs, u, e, votes) ==
    \A i \in DOMAIN votes :
        votes[i].position_id # NoId => ~has_record(recs, u, e, votes[i].position_id)

\* uniq_user_election_position on voting_records (user_id, election_id,
\* position_id): MySQL lets any number of rows share a NULL position_id.
unique_index_ok(recs, u, e, votes) ==
    /\ \A i \in DOMAIN votes :
            votes[i].position_id # NoId => ~has_record(recs, u, e, votes[i].position_id)
    /\ \A i, j \in DOMAIN votes :
            (i # j /\ votes[i].position_id # NoId) => votes[i].position_id # votes[j].position_id

\* Foreign keys of voting_records: user_id, election_id, candidate_id
foreign_keys_ok(u, e, votes) ==
    /\ u \in users
    /\ e \in DOMAIN elections /\ elections[e] # NoElection
    /\ \A i \in DOMAIN votes :
            votes[i].candidate_id # NoId => candidates[votes[i].candidate_id] # NoCandidate

\* The UPDATE of a candidate row read earlier finds the row gone (StaleDataError)
stale_candidate(call) ==
    \E c \in CandidateIds :
        cast_lines(call.votes, c) > 0 /\ call.seen[c] >= 0 /\ candidates[c] = NoCandidate

\* A variant that counts a candidate once per ballot, not once per cast line.
bump_once_per_ballot(call) ==
    [c \in CandidateIds |->
        IF cast_lines(call.votes, c) > 0 /\ call.seen[c] >= 0
        THEN [candidates[c] EXCEPT !.vote_count = call.seen[c] + 1]
        ELSE candidates[c]]

\* A variant that counts the ballot itself besides its cast lines.
bump_lines_and_ballot(call) ==
    [c \in CandidateIds |->
        IF cast_lines(call.votes, c) > 0 /\ call.seen[c] >= 0
        THEN [candidates[c] EXCEPT !.vote_count = call.seen[c] + cast_lines(call.votes, c) + 1]
        ELSE candidates[c]]

\* candidate.vote_count = (candidate.vote_count or 0) + 1 for every cast line,
\* on the row as the session read it
bump_vote_counts(call) ==
    [c \in CandidateIds |->
        IF cast_lines(call.votes, c) > 0 /\ call.seen[c] >= 0
        THEN [candidates[c] EXCEPT !.vote_count = call.seen[c] + cast_lines(call.votes, c)]
        ELSE candidates[c]]

lines_in_flight == 
    LET n(s) == IF calls[s] = NoCall THEN 0 ELSE Len(calls[s].votes)
    IN n(1) + n(2)

\* A variant of the pre-check that also turns away a ballot for an election
\* that is not active.
precheck_or_not_active(u, e, votes) ==
    \/ elections[e].status # "active"
    \/ \E i \in DOMAIN votes :
            votes[i].position_id # NoId /\ has_record(records, u, e, votes[i].position_id)

\* The pre-check loop of cast_ballot_votes over the lines with a position_id
ballot_precheck_hit(u, e, votes) ==
    \E i \in DOMAIN votes :
        votes[i].position_id # NoId /\ has_record(records, u, e, votes[i].position_id)

\* cast_ballot_votes up to session.commit(): the pre-check and the reads
CastBallotBegin(s, u, e, votes) ==
    /\ calls[s] = NoCall /\ \A t \in Sessions : t < s => calls[t] # NoCall
    /\ UNCHANGED <<statusVars, users, positions, candidates, records, adminOps>>
    /\ IF ballot_precheck_hit(u, e, votes)
       THEN /\ ret' = ALREADY_POSITIONS
            /\ calls' = calls
       ELSE /\ BagCardinality(records) + lines_in_flight + Len(votes) <= MaxRecords
            /\ calls' = [calls EXCEPT ![s] =
                    [op |-> "ballot", user_id |-> u, election_id |-> e,
                     votes |-> votes, seen |-> seen_counts(votes)]]
            /\ ret' = ret

\* session.commit() of a cast call: all rows and counters, or nothing
commit_outcome(call) ==
    IF stale_candidate(call) THEN "failed"
    ELSE IF ~foreign_keys_ok(call.user_id, call.election_id, call.votes)
            \/ ~unique_index_ok(records, call.user_id, call.election_id, call.votes)
        THEN "integrity"
    ELSE "ok"

\* cast_ballot_votes: session.commit() and the except clauses
CastBallotCommit(s) ==
    /\ calls[s] # NoCall /\ calls[s].op = "ballot"
    /\ calls' = [calls EXCEPT ![s] = NoCall]
    /\ UNCHANGED <<statusVars, users, positions, adminOps>>
    /\ LET call == calls[s]
           outcome == commit_outcome(call)
       IN IF outcome = "ok"
          THEN /\ records' = records (+) lines_bag(call.user_id, call.election_id, call.votes)
               /\ candidates' = bump_vote_counts(call)
               /\ ret' = BALLOT_OK
          ELSE /\ UNCHANGED <<records, candidates>>
               /\ ret' = IF outcome = "integrity" THEN ALREADY_POSITIONS ELSE BALLOT_FAILED

\* cast_vote up to session.commit(): candidate lookup and the pre-check
CastVoteBegin(s, u, e, c) ==
    /\ calls[s] = NoCall /\ \A t \in Sessions : t < s => calls[t] # NoCall
    /\ UNCHANGED <<statusVars, users, positions, candidates, records, adminOps>>
    /\ IF candidates[c] = NoCandidate
       THEN ret' = NOT_FOUND /\ calls' = calls
       ELSE LET position_id == candidates[c].position_id
                votes == <<[position_id |-> position_id, candidate_id |-> c]>>
            IN IF position_id # NoId /\ has_record(records, u, e, position_id)
               THEN ret' = ALREADY_POSITION /\ calls' = calls
               ELSE IF position_id = NoId /\ has_record_in_election(records, u, e)
               THEN ret' = ALREADY_ELECTION /\ calls' = calls
               ELSE /\ BagCardinality(records) + lines_in_flight + 1 <= MaxRecords
                    /\ calls' = [calls EXCEPT ![s] =
                            [op |-> "vote", user_id |-> u, election_id |-> e,
                             votes |-> votes, seen |-> seen_counts(votes)]]
                    /\ ret' = ret

\* cast_vote: session.commit() and the except clauses
CastVoteCommit(s) ==
    /\ calls[s] # NoCall /\ calls[s].op = "vote"
    /\ calls' = [calls EXCEPT ![s] = NoCall]
    /\ UNCHANGED <<statusVars, users, positions, adminOps>>
    /\ LET call == calls[s]
           outcome == commit_outcome(call)
       IN IF outcome = "ok"
          THEN /\ records' = records (+) lines_bag(call.user_id, call.election_id, call.votes)
               /\ candidates' = bump_vote_counts(call)
               /\ ret' = VOTE_OK
          ELSE /\ UNCHANGED <<records, candidates>>
               /\ ret' = IF outcome = "integrity" THEN ALREADY_POSITION ELSE VOTE_FAILED

\* Number of rows of bag B among the row values rs
RECURSIVE copies_sum(_, _)
copies_sum(B, rs) ==
    IF rs = {} THEN 0
    ELSE LET r == CHOOSE x \in rs : TRUE
         IN CopiesIn(r, B) + copies_sum(B, rs \ {r})

\* A row after its candidate c is deleted
nullify_candidate(r, c) == IF r.candidate_id = c THEN [r EXCEPT !.candidate_id = NoId] ELSE r

\* Database.delete_voter: session.delete(user) takes the user's voting_records
\* with it (User.votes cascade "all, delete-orphan"; user_id ON DELETE CASCADE).
\* The audit row the call adds names the user (audit_logs.user_id): where that
\* column carries its foreign key the commit is refused and nothing changes.
DeleteVoter(u) ==
    /\ adminOps < MaxAdminOps
    /\ u \in users
    /\ adminOps' = adminOps + 1
    /\ \/ /\ users' = users \ {u}
          /\ records' = [r \in {x \in BagToSet(records) : x.user_id # u} |-> records[r]]
       \/ UNCHANGED <<users, records>>
    /\ UNCHANGED <<statusVars, positions, candidates, calls, ret>>

\* Database.delete_candidate: candidate_id of its voting_records is set to NULL
\* (candidate_id ON DELETE SET NULL)
DeleteCandidate(c) ==
    /\ adminOps < MaxAdminOps
    /\ candidates[c] # NoCandidate
    /\ adminOps' = adminOps + 1
    /\ candidates' = [candidates EXCEPT ![c] = NoCandidate]
    /\ records' = [y \in {nullify_candidate(r, c) : r \in BagToSet(records)} |->
                        copies_sum(records, {r \in BagToSet(records) : nullify_candidate(r, c) = y})]
    /\ UNCHANGED <<statusVars, users, positions, calls, ret>>

\* Database.assign_candidate_to_position
AssignCandidateToPosition(c, p) ==
    /\ adminOps < MaxAdminOps
    /\ candidates[c] # NoCandidate
    /\ candidates[c].position_id # p
    /\ adminOps' = adminOps + 1
    /\ candidates' = [candidates EXCEPT ![c].position_id = p]
    /\ UNCHANGED <<statusVars, users, positions, records, calls, ret>>

\* ---------------------------------------------------- results aggregator
\* vote_counts: COUNT(record_id) of the election's cast rows GROUP BY candidate_id
vote_counts(e, c) ==
    copies_sum(records, {r \in BagToSet(records) :
                            r.election_id = e /\ r.candidate_id = c /\ r.status = "cast"})

\* votes = vote_counts.get(c.candidate_id); if votes is None: votes = c.vote_count or 0
reported_votes(e, c) ==
    IF vote_counts(e, c) > 0 THEN vote_counts(e, c) ELSE candidates[c].vote_count

\* The buckets of the result: the election's positions, then "General" (NoId)
\* when the election has candidates without a position
result_buckets(e) ==
    {p \in PositionIds : positions[p] = e}
        \cup (IF \E c \in CandidateIds : candidates[c] # NoCandidate
                    /\ candidates[c].election_id = e /\ candidates[c].position_id = NoId
              THEN {NoId} ELSE {})

\* Candidate rows listed under a bucket
bucket_candidates(e, b) ==
    IF b = NoId
    THEN {c \in CandidateIds : candidates[c] # NoCandidate
            /\ candidates[c].election_id = e /\ candidates[c].position_id = NoId}
    ELSE {c \in CandidateIds : candidates[c] # NoCandidate /\ candidates[c].position_id = b}

\* candidate_dicts.sort(key=vote_count, reverse=True): stable, rows in key order before
RECURSIVE sorted_candidates(_, _)
sorted_candidates(e, cs) ==
    IF cs = {} THEN <<>>
    ELSE LET first == CHOOSE c \in cs :
                \A d \in cs : \/ reported_votes(e, c) > reported_votes(e, d)
                              \/ (reported_votes(e, c) = reported_votes(e, d) /\ c <= d)
         IN <<first>> \o sorted_candidates(e, cs \ {first})

RECURSIVE sum_votes(_, _)
sum_votes(e, cs) ==
    IF cs = {} THEN 0
    ELSE LET c == CHOOSE x \in cs : TRUE
         IN reported_votes(e, c) + sum_votes(e, cs \ {c})

\* position_total of a bucket
position_total(e, b) == sum_votes(e, bucket_candidates(e, b))

\* winner of a bucket: candidate_dicts[0] when it has votes, else None
winner(e, b) ==
    LET ranked == sorted_candidates(e, bucket_candidates(e, b))
    IN IF ranked # <<>> /\ reported_votes(e, ranked[1]) > 0 THEN ranked[1] ELSE NoId

RECURSIVE sum_buckets(_, _)
sum_buckets(e, bs) ==
    IF bs = {} THEN 0
    ELSE LET b == CHOOSE x \in bs : TRUE
         IN position_total(e, b) + sum_buckets(e, bs \ {b})

\* results["total_votes"] of get_election_results_by_position
total_votes(e) == sum_buckets(e, result_buckets(e))

\* ------------------------------------------------------- ballot status
\* Database.has_user_voted_position (HasVotedForPosition)
has_user_voted_position(u, e, p) ==
    \E r \in BagToSet(records) : r.user_id = u /\ r.election_id = e /\ r.position_id = p

\* A variant that takes the voter's records of every election.
voted_positions_any_election(u, e) ==
    {r.position_id : r \in {x \in BagToSet(records) : x.user_id = u}}

\* voted_positions = {v.position_id for v in user_votes}
voted_positions(u, e) ==
    {r.position_id : r \in {x \in BagToSet(records) : x.user_id = u /\ x.election_id = e}}

\* Database.get_user_ballot_status (BallotCompletionStatus)
get_user_ballot_status(u, e) ==
    LET election_positions == {p \in PositionIds : positions[p] = e}
        total_positions == Cardinality(election_positions)
        voted_count == Cardinality({p \in election_positions : p \in voted_positions(u, e)})
    IN [total_positions |-> total_positions,
        voted_count |-> voted_count,
        completed |-> (voted_count = total_positions /\ total_positions > 0)]

\* The state after the administrator's set-up, before any vote
Init ==
    /\ today = 1
    /\ elections = SetupElections
    /\ out = "start"
    /\ listed = [e \in ElectionIds |-> NoStatus]
    /\ syncs = [s \in Sessions |-> NoSync]
    /\ eligible = NoQuestion
    /\ users = SetupUsers
    /\ positions = SetupPositions
    /\ candidates = SetupCandidates
    /\ records = EmptyBag
    /\ calls = [s \in Sessions |-> NoCall]
    /\ ret = "start"
    /\ adminOps = 0

Next ==
    \/ \E s \in Sessions, u \in UserIds, e \in BallotElectionIds, votes \in Ballots :
            CastBallotBegin(s, u, e, votes)
    \/ \E s \in Sessions : CastBallotCommit(s)
    \/ \E s \in Sessions, u \in UserIds, e \in BallotElectionIds, c \in CandidateIds :
            CastVoteBegin(s, u, e, c)
    \/ \E s \in Sessions : CastVoteCommit(s)

\* The ballot core under concurrent clients
Spec == Init /\ [][Next]_vars

\* One client at a time, with the administration of voters and candidates
NextAdmin ==
    \/ \E u \in UserIds, e \in BallotElectionIds, votes \in Ballots :
            CastBallotBegin(1, u, e, votes)
    \/ CastBallotCommit(1)
    \/ \E u \in UserIds, e \in BallotElectionIds, c \in CandidateIds :
            CastVoteBegin(1, u, e, c)
    \/ CastVoteCommit(1)
    \/ \E u \in UserIds : DeleteVoter(u)
    \/ \E c \in CandidateIds : DeleteCandidate(c)
    \/ \E c \in CandidateIds, p \in PositionIds : AssignCandidateToPosition(c, p)

SpecAdmin == Init /\ [][NextAdmin]_vars

\* Election 1 as set up, not yet open, closed by the administrator, and
\* locked active before its start
ElectionCases ==
    {[start_date |-> 1, end_date |-> 2, status |-> "active", status_locked |-> FALSE],
     [start_date |-> 2, end_date |-> 2, status |-> "upcoming", status_locked |-> FALSE],
     [start_date |-> 1, end_date |-> 2, status |-> "finalized", status_locked |-> TRUE],
     [start_date |-> 2, end_date |-> 2, status |-> "active", status_locked |-> TRUE]}

\* The restrictions of election 1 and the grade and section of the voters:
\* voters the election admits, and voters it does not
EligibilityCases ==
    {[allowed_grade |-> "none", allowed_section |-> "ALL",
      grade_level |-> "11", section |-> "A", result |-> "unknown"],
     [allowed_grade |-> "12", allowed_section |-> "B",
      grade_level |-> "11", section |-> "A", result |-> "unknown"]}

\* The set-up with election 1 and the voters in any of the cases
InitAnyElection ==
    /\ today = 1
    /\ elections \in {<<row, SetupElections[2]>> : row \in ElectionCases}
    /\ out = "start"
    /\ listed = [e \in ElectionIds |-> NoStatus]
    /\ syncs = [s \in Sessions |-> NoSync]
    /\ eligible \in EligibilityCases
    /\ users = SetupUsers
    /\ positions = SetupPositions
    /\ candidates = SetupCandidates
    /\ records = EmptyBag
    /\ calls = [s \in Sessions |-> NoCall]
    /\ ret = "start"
    /\ adminOps = 0

NextAnyElection ==
    \/ \E u \in UserIds, e \in BallotElectionIds, votes \in Ballots :
            CastBallotBegin(1, u, e, votes)
    \/ CastBallotCommit(1)
    \/ \E u \in UserIds, e \in BallotElectionIds, c \in CandidateIds :
            CastVoteBegin(1, u, e, c)
    \/ CastVoteCommit(1)

\* One client casting, whatever the state of the election and the voters
SpecAnyElection == InitAnyElection /\ [][NextAnyElection]_vars

\* --------------------------------------------------- claims: ballot core
\* Number of rows of voting_records for voter u, election e, position p
rows_for(u, e, p) ==
    copies_sum(records, {r \in BagToSet(records) :
                            r.user_id = u /\ r.election_id = e /\ r.position_id = p})

\* Number of cast rows of election e
cast_rows(e) ==
    copies_sum(records, {r \in BagToSet(records) : r.election_id = e /\ r.status = "cast"})

\* A ballot call in flight one of whose lines names a position the voter
\* already has a record for
references_recorded(call) ==
    /\ call # NoCall /\ call.op = "ballot"
    /\ \E i \in DOMAIN call.votes :
            /\ call.votes[i].position_id # NoId
            /\ has_record(records, call.user_id, call.election_id, call.votes[i].position_id)

\* Session s commits its ballot call in this step
ballot_commits(s) == calls[s] # NoCall /\ calls[s].op = "ballot" /\ calls'[s] = NoCall

\* Session s gets past the pre-check of a ballot call in this step
ballot_begins(s) == calls[s] = NoCall /\ calls'[s] # NoCall /\ calls'[s].op = "ballot"

\* C1: for every voter, election and non-nil position there is at most one
\* record, whatever the interleaving of the concurrent CastBallot calls.  A
\* CastBallot that references a triple already recorded never gets past the
\* pre-check; one that got past it before the other call committed is
\* rejected at its commit with the "already voted" result and writes nothing.
C1_AtMostOneRecord ==
    /\ [](\A u \in UserIds, e \in BallotElectionIds, p \in PositionIds : rows_for(u, e, p) <= 1)
    /\ [][\A s \in Sessions :
            /\ (ballot_commits(s) /\ references_recorded(calls[s]))
                    => (ret' = ALREADY_POSITIONS /\ records' = records)
            /\ ballot_begins(s) => ~references_recorded(calls'[s])]_vars

\* The race: a ballot passed its pre-check and, before its commit, another
\* call committed a record for one of its triples
C1_Witness == \E s \in Sessions : references_recorded(calls[s])

\* C2: CastBallot is all-or-nothing.  Its commit either adds exactly the N
\* rows of its N lines, raises the vote_count of the candidates of its cast
\* lines and of no other, and answers success; or it answers a failure and
\* leaves voting_records and every vote_count as they were, which is what
\* happens whenever one of its lines names a position already recorded.
\* Nothing is written before the commit.
C2_AllOrNothing ==
    [][ /\ \A s \in Sessions :
            ballot_commits(s) =>
                LET call == calls[s]
                    N == Len(call.votes)
                IN /\ \/ /\ ret' = BALLOT_OK
                         /\ BagCardinality(records') = BagCardinality(records) + N
                         /\ \A r \in BagToSet(records) : CopiesIn(r, records') >= CopiesIn(r, records)
                         /\ \A i \in 1..N :
                               CopiesIn(line_record(call.user_id, call.election_id, call.votes[i]), records')
                                   > CopiesIn(line_record(call.user_id, call.election_id, call.votes[i]), records)
                         /\ \A c \in CandidateIds :
                               IF cast_lines(call.votes, c) > 0
                               THEN candidates'[c].vote_count = call.seen[c] + cast_lines(call.votes, c)
                               ELSE candidates'[c] = candidates[c]
                      \/ /\ ret' \in {ALREADY_POSITIONS, BALLOT_FAILED}
                         /\ records' = records
                         /\ candidates' = candidates
                   /\ references_recorded(call) => records' = records
        /\ (\A s \in Sessions : calls[s] = NoCall \/ calls'[s] # NoCall)
                => (records' = records /\ candidates' = candidates) ]_vars

\* A ballot of two lines at its commit, about to be refused as a whole
C2_Witness ==
    \E s \in Sessions :
        /\ calls[s] # NoCall /\ calls[s].op = "ballot" /\ Len(calls[s].votes) = 2
        /\ commit_outcome(calls[s]) = "integrity"

\* C3: for every voter and election at most one record has a nil position_id.
C3_OneNilPositionRecord ==
    \A u \in UserIds, e \in BallotElectionIds : rows_for(u, e, NoId) <= 1

\* C4: the ballot log is append-only: no step removes a row or changes a field
\* of a row (every row value keeps at least the copies it had).
C4_AppendOnly ==
    [][\A r \in BagToSet(records) : CopiesIn(r, records') >= CopiesIn(r, records)]_vars

\* C5: for every candidate X listed in the results of election e, the tally
\* shown is the number of cast rows with election_id = e, X's position and
\* candidate_id = X, whatever X's cached vote_count.
C5_TallyFromLog ==
    \A e \in BallotElectionIds : \A b \in result_buckets(e) : \A c \in bucket_candidates(e, b) :
        reported_votes(e, c) =
            copies_sum(records, {r \in BagToSet(records) :
                /\ r.election_id = e /\ r.position_id = candidates[c].position_id
                /\ r.candidate_id = c /\ r.status = "cast"})

\* C6: for every election the sum of the tallies shown over all buckets and
\* candidates equals the number of its cast rows.
C6_TallyReconciles ==
    \A e \in BallotElectionIds : total_votes(e) = cast_rows(e)

\* Candidates of a bucket whose tally is the bucket's maximum
top_candidates(e, b) ==
    {c \in bucket_candidates(e, b) :
        \A d \in bucket_candidates(e, b) : reported_votes(e, c) >= reported_votes(e, d)}

\* C7: the winner shown for a bucket is the set of all candidates at the
\* bucket's maximum tally when that maximum is > 0 (a tie lists them all),
\* and none when no candidate of the bucket has a vote.
C7_WinnerIsAllAtMaximum ==
    \A e \in BallotElectionIds : \A b \in result_buckets(e) :
        IF \E c \in bucket_candidates(e, b) : reported_votes(e, c) > 0
        THEN {winner(e, b)} = top_candidates(e, b)
        ELSE winner(e, b) = NoId

\* ------------------------------------------------- claims: status engine
Exists(e) == elections[e] # NoElection
Derived(e) == compute_status_from_dates(elections[e].start_date, elections[e].end_date, today)
RejectReasons == {reject_reason(st) : st \in Statuses}

\* C8: once an election has status_locked = true, no passive-sync read
\* (ListElections, GetElection, allowed-elections, results, dashboard
\* statistics) changes its stored status, whatever its dates and the day:
\* neither a read that runs alone nor the commit of a list that another
\* client's call overlapped.
C8_NoDriftWhenLocked ==
    [][(PassiveRead \/ \E s \in Sessions : ListElectionsCommit(s)) =>
        \A e \in ElectionIds :
            (Exists(e) /\ elections[e].status_locked)
                => (elections'[e] # NoElection /\ elections'[e].status = elections[e].status)]_vars

\* C8 witness: a read has just run over a locked election whose stored status
\* differs from what its dates derive for today.
C8_Witness ==
    /\ out = "read"
    /\ \E e \in ElectionIds :
        /\ Exists(e) /\ elections[e].status_locked
        /\ Derived(e) # NoStatus /\ Derived(e) # elections[e].status

\* Every unlocked election with a derived status stores that status.
InSync ==
    \A e \in ElectionIds :
        (Exists(e) /\ ~elections[e].status_locked /\ Derived(e) # NoStatus)
            => elections[e].status = Derived(e)

\* C9 as stated: in every reachable state an election with status_locked =
\* false has a stored status equal to the value derived from its dates and today.
C9_Original == InSync

\* C9 amended: the equality holds initially, every operation other than the
\* advance of the current day preserves it, and every read of all elections
\* re-establishes it; only the passing of a day leaves a stored status stale.
C9_SyncedUntilDayAdvances ==
    [][ /\ (ListElections => InSync')
        /\ ((InSync /\ today' = today) => InSync') ]_vars

\* C9 witness: on day 2 a read has brought an unlocked election that was
\* created upcoming on day 1 to active.
C9_Witness ==
    /\ today = 2 /\ out = "read"
    /\ \E e \in ElectionIds :
        /\ Exists(e) /\ ~elections[e].status_locked
        /\ elections[e].start_date = 2 /\ elections[e].status = "active"

\* The case of C10: an existing election, force = false, ExpectedStatus
\* defined and different from the (normalized) requested status.
MismatchedRequest(id, requested, force) ==
    /\ Exists(id) /\ ~force
    /\ expected_status(elections[id].start_date, elections[id].end_date, today) # NoStatus
    /\ expected_status(elections[id].start_date, elections[id].end_date, today)
            # normalize_status(requested)

\* C10 as stated: a mismatched SetStatus without force is rejected with a
\* specific reason and leaves the stored status and status_locked as they were.
C10_Original ==
    [][\A id \in ElectionIds, requested \in Statuses \cup {"ended"}, force \in BOOLEAN :
        (MismatchedRequest(id, requested, force) /\ SetStatus(id, requested, force))
            => /\ out' \in RejectReasons
               /\ elections'[id].status = elections[id].status
               /\ elections'[id].status_locked = elections[id].status_locked]_vars

\* C10 amended: the request is rejected with the reason for the requested
\* status and is never stored: status_locked and the dates are unchanged, and
\* the stored status is unchanged for a locked election and is ExpectedStatus
\* (written by the passive sync of the read SetStatus starts with) otherwise.
C10_RejectedNotCoerced ==
    [][\A id \in ElectionIds, requested \in Statuses \cup {"ended"}, force \in BOOLEAN :
        (MismatchedRequest(id, requested, force) /\ SetStatus(id, requested, force))
            => /\ out' = reject_reason(normalize_status(requested))
               /\ elections'[id].status_locked = elections[id].status_locked
               /\ elections'[id].start_date = elections[id].start_date
               /\ elections'[id].end_date = elections[id].end_date
               /\ elections'[id].status =
                    IF elections[id].status_locked THEN elections[id].status
                    ELSE expected_status(elections[id].start_date,
                                         elections[id].end_date, today)]_vars

\* C10 witness (Scenario A): the election starts tomorrow and a request to
\* activate it has just been rejected with the date-range reason.
C10_Witness ==
    /\ out = "Cannot set to Active outside the election date range."
    /\ \E e \in ElectionIds :
        /\ Exists(e) /\ elections[e].start_date = today + 1
        /\ elections[e].status = "upcoming" /\ ~elections[e].status_locked

\* The case of C11: an existing election and a request that is accepted
AcceptedRequest(id, requested, force) ==
    /\ Exists(id)
    /\ \/ force
       \/ expected_status(elections[id].start_date, elections[id].end_date, today) = NoStatus
       \/ expected_status(elections[id].start_date, elections[id].end_date, today)
                = normalize_status(requested)

\* C11: an accepted SetStatus (force, or the requested status equal to
\* ExpectedStatus, or no ExpectedStatus) answers success and leaves the
\* election with the requested status stored ("ended" being the alias of
\* "finalized"), status_locked = true and its dates as they were.
C11_AcceptedIsStoredAndLocked ==
    [][\A id \in ElectionIds, requested \in Statuses \cup {"ended"}, force \in BOOLEAN :
        (AcceptedRequest(id, requested, force) /\ SetStatus(id, requested, force))
            => /\ out' = "Election updated successfully!"
               /\ elections'[id].status = normalize_status(requested)
               /\ (requested \in Statuses => elections'[id].status = requested)
               /\ elections'[id].status_locked
               /\ elections'[id].start_date = elections[id].start_date
               /\ elections'[id].end_date = elections[id].end_date]_vars

\* C11 witness: on day 1 a forced request has stored, and locked, a status
\* that the dates do not derive.
C11_Witness ==
    /\ today = 1 /\ out = "Election updated successfully!"
    /\ \E e \in ElectionIds :
        /\ Exists(e) /\ elections[e].status_locked
        /\ Derived(e) # NoStatus /\ Derived(e) # elections[e].status

\* C12: when a list of all elections returns, every unlocked election whose
\* dates derive a status for today has that status persisted, and the list
\* shows for every election the status that is persisted.
C12_ListSyncsAndShows ==
    [][ListElections =>
        \A e \in ElectionIds :
            Exists(e) =>
                /\ elections'[e] # NoElection
                /\ listed'[e] = elections'[e].status
                /\ (~elections[e].status_locked /\ Derived(e) # NoStatus)
                        => (elections'[e].status = Derived(e) /\ listed'[e] = Derived(e))]_vars

\* C12 witness: on day 2 the list shows active for an unlocked election that
\* was created upcoming, to start on day 2.
C12_Witness ==
    /\ today = 2 /\ out = "read"
    /\ \E e \in ElectionIds :
        /\ Exists(e) /\ ~elections[e].status_locked /\ elections[e].start_date = 2
        /\ listed[e] = "active" /\ elections[e].status = "active"

\* The decision table of the claim, by which of the two dates are set
DecisionTable(start_date, end_date, t) ==
    CASE start_date # NoDate /\ end_date # NoDate ->
            (IF t < start_date THEN "upcoming"
             ELSE IF t > end_date THEN "finalized"
             ELSE "active")
      [] start_date # NoDate /\ end_date = NoDate ->
            (IF t < start_date THEN "upcoming" ELSE "active")
      [] start_date = NoDate /\ end_date # NoDate ->
            (IF t <= end_date THEN "active" ELSE "finalized")
      [] start_date = NoDate /\ end_date = NoDate -> NoStatus

\* C13: for every combination of set and unset dates and every day, the
\* status derived by the service (_compute_status_from_dates) and the one
\* derived by the controller (_expected_status) are the value of the decision
\* table: upcoming before a set start; else finalized after a set end; else
\* active; and no value when neither date is set.
C13_ExpectedStatusTable ==
    [][\A id \in ElectionIds :
        (ComputeStatusFromDates(id) \/ ExpectedStatus(id))
            => out' = DecisionTable(elections[id].start_date, elections[id].end_date, today)]_vars

\* C13 witness: only the end date is set, the day is past it, and the
\* derivation has answered finalized.
C13_Witness ==
    /\ out = "finalized"
    /\ \E e \in ElectionIds :
        /\ elections[e].start_date = NoDate /\ elections[e].end_date # NoDate
        /\ today > elections[e].end_date

\* The case of C14: a provided date is in the past, or the end precedes the start
InvalidDates(start_date, end_date) ==
    \/ start_date # NoDate /\ start_date < today
    \/ end_date # NoDate /\ end_date < today
    \/ start_date # NoDate /\ end_date # NoDate /\ end_date < start_date

ValidationMessages ==
    {"Start date cannot be before today.", "End date cannot be before today.",
     "End date cannot be earlier than start date."}

\* C14: CreateElection and UpdateElection with a provided start or end date
\* earlier than today, or an end date before the start date, answer a
\* validation message and leave the elections table as it was: no row is
\* created and none is modified.
C14_InvalidDatesRejected ==
    [][\A start_date \in Dates, end_date \in Dates :
        InvalidDates(start_date, end_date) =>
            /\ \A status \in Statuses \cup {NoStatus} :
                    CreateElection(start_date, end_date, status)
                        => (elections' = elections /\ out' \in ValidationMessages)
            /\ \A id \in ElectionIds, status \in Statuses :
                    UpdateElection(id, start_date, end_date, status)
                        => (elections' = elections /\ out' \in ValidationMessages)]_vars

\* C14 witness: on day 2, with an election stored, a submission whose start
\* date is day 1 has just been refused.
C14_Witness ==
    /\ today = 2 /\ out = "Start date cannot be before today."
    /\ \E e \in ElectionIds : Exists(e)

\* ------------------------------------------- claims: ballot core, continued
\* Session s commits its call (of either kind) in this step
call_commits(s) == calls[s] # NoCall /\ calls'[s] = NoCall

\* The call in flight is a duplicate attempt: the voter already has a record
\* in the scope the call votes in (the position, or the whole election for a
\* candidate without a position)
duplicate_attempt(call) ==
    IF call.op = "ballot" THEN references_recorded(call)
    ELSE IF call.votes[1].position_id # NoId
        THEN has_record(records, call.user_id, call.election_id, call.votes[1].position_id)
    ELSE has_record_in_election(records, call.user_id, call.election_id)

\* What the pre-check of the same operation answers to a duplicate
precheck_message(call) ==
    IF call.op = "ballot" THEN ALREADY_POSITIONS
    ELSE IF call.votes[1].position_id # NoId THEN ALREADY_POSITION
    ELSE ALREADY_ELECTION

\* C15: a duplicate attempt that got past the pre-check and is detected only
\* at its commit is answered with the same "already voted" message the
\* pre-check gives, for CastBallot and for CastVote with a positioned and
\* with an unassigned candidate, and writes nothing.
C15_SameResultOnBothPaths ==
    [][\A s \in Sessions :
        (call_commits(s) /\ duplicate_attempt(calls[s]))
            => (ret' = precheck_message(calls[s]) /\ records' = records)]_vars

\* The call in flight names a candidate that had no row when the call read it
names_unknown_candidate(call) ==
    \E c \in CandidateIds : cast_lines(call.votes, c) > 0 /\ call.seen[c] = -1

\* C16: a cast call that names a candidate that does not exist is answered
\* "not found" and writes nothing: no record is created and no vote_count
\* changes.
C16_UnknownCandidateNotFound ==
    [][\A s \in Sessions :
        (call_commits(s) /\ names_unknown_candidate(calls[s]))
            => (ret' = NOT_FOUND /\ records' = records /\ candidates' = candidates)]_vars

\* C17: a CastBallot with no line item is refused: it is not answered with
\* the success message, and it writes nothing.
C17_EmptyBallotRejected ==
    [][\A s \in Sessions :
        (ballot_commits(s) /\ calls[s].votes = <<>>)
            => (ret' # BALLOT_OK /\ records' = records /\ candidates' = candidates)]_vars

\* The record the claim expects for line i of a ballot
expected_row(call, i) ==
    [user_id |-> call.user_id, election_id |-> call.election_id,
     position_id |-> call.votes[i].position_id,
     candidate_id |-> call.votes[i].candidate_id,
     status |-> IF call.votes[i].candidate_id # NoId THEN "cast" ELSE "spoiled"]

\* An accepted ballot adds one record per line: cast with the candidate when
\* the line names one, spoiled with no candidate otherwise
one_record_per_line(call) ==
    /\ BagCardinality(records') = BagCardinality(records) + Len(call.votes)
    /\ \A r \in BagToSet(records') :
            CopiesIn(r, records') = CopiesIn(r, records)
                + Cardinality({i \in DOMAIN call.votes : expected_row(call, i) = r})

\* C18 as stated: an accepted CastBallot adds one record per line (cast or
\* spoiled) and raises each candidate's vote_count by exactly the number of
\* cast lines naming the candidate, leaving the other counters unchanged.
C18_Original ==
    [][\A s \in Sessions :
        (ballot_commits(s) /\ ret' = BALLOT_OK)
            => /\ one_record_per_line(calls[s])
               /\ \A c \in CandidateIds :
                    candidates'[c].vote_count
                        = candidates[c].vote_count + cast_lines(calls[s].votes, c)]_vars

\* C18 amended: an accepted CastBallot adds one record per line (cast or
\* spoiled); the vote_count of a candidate named by its cast lines becomes
\* the value the call read plus the number of those lines, which is an
\* increase by exactly that number when no other call changed the counter
\* in between; the counters of the other candidates are unchanged.
C18_RecordsAndCounters ==
    [][\A s \in Sessions :
        (ballot_commits(s) /\ ret' = BALLOT_OK)
            => /\ one_record_per_line(calls[s])
               /\ \A c \in CandidateIds :
                    IF cast_lines(calls[s].votes, c) = 0
                    THEN candidates'[c] = candidates[c]
                    ELSE /\ candidates'[c].vote_count
                                = calls[s].seen[c] + cast_lines(calls[s].votes, c)
                         /\ (calls[s].seen[c] = candidates[c].vote_count)
                                => candidates'[c].vote_count
                                    = candidates[c].vote_count + cast_lines(calls[s].votes, c)]_vars

\* C18 witness (Scenario C): a ballot of an abstention and a vote has been
\* accepted: one spoiled record without candidate, one cast record for the
\* candidate, whose counter is 1.
C18_Witness ==
    /\ ret = BALLOT_OK
    /\ \E u \in UserIds, e \in BallotElectionIds, c \in CandidateIds :
        /\ BagToSet(records) =
                {[user_id |-> u, election_id |-> e, position_id |-> 1,
                  candidate_id |-> NoId, status |-> "spoiled"],
                 [user_id |-> u, election_id |-> e, position_id |-> 2,
                  candidate_id |-> c, status |-> "cast"]}
        /\ candidates[c].vote_count = 1

\* The lines name only positions of election e, each once, for none of which
\* voter u has a record
completes_ballot(u, e, votes) ==
    /\ votes # <<>>
    /\ \A i \in DOMAIN votes :
            /\ votes[i].position_id # NoId
            /\ positions[votes[i].position_id] = e
            /\ ~has_record(records, u, e, votes[i].position_id)
    /\ \A i, j \in DOMAIN votes : i # j => votes[i].position_id # votes[j].position_id

\* C19: a voter who already has records in an election can complete the
\* ballot by a separate call: a CastBallot whose lines name only positions
\* of the election the voter has no record for passes the pre-check, is
\* accepted at its commit, adds one record per line and leaves the records
\* already there untouched.
C19_PartialBallotCompleted ==
    /\ [](\A u \in UserIds, e \in BallotElectionIds, votes \in Ballots :
            (has_record_in_election(records, u, e) /\ completes_ballot(u, e, votes))
                => ~ballot_precheck_hit(u, e, votes))
    /\ [][\A s \in Sessions :
            (/\ ballot_commits(s)
             /\ has_record_in_election(records, calls[s].user_id, calls[s].election_id)
             /\ completes_ballot(calls[s].user_id, calls[s].election_id, calls[s].votes))
                => /\ ret' = BALLOT_OK
                   /\ BagCardinality(records') = BagCardinality(records) + Len(calls[s].votes)
                   /\ \A r \in BagToSet(records) : CopiesIn(r, records') = CopiesIn(r, records)
                   /\ \A i \in DOMAIN calls[s].votes :
                        has_record(records', calls[s].user_id, calls[s].election_id,
                                   calls[s].votes[i].position_id)]_vars

\* C19 witness: a voter has a record for each of the two positions of the
\* election, the last of them written by a ballot just accepted.
C19_Witness ==
    /\ ret = BALLOT_OK /\ \A s \in Sessions : calls[s] = NoCall
    /\ \E u \in UserIds : rows_for(u, 1, 1) = 1 /\ rows_for(u, 1, 2) = 1

\* ------------------------------------------------------ claims: eligibility
\* The grade a value stands for when compared numerically (NoGrade: none)
grade_number(g) == IF g \in {"11", "011"} THEN 11 ELSE IF g = "12" THEN 12 ELSE NoGrade

\* Sections compared without regard to case and surrounding blanks
same_section(a, b) ==
    \/ a \in {"A", "a "} /\ b \in {"A", "a "}
    \/ a = "B" /\ b = "B"
    \/ a \in {"ALL", "all"} /\ b \in {"ALL", "all"}

\* The restriction by section is in force: set, not blank and not ALL
section_restricted(a) == a \notin {NoSection, "", "ALL", "all"}

\* C20: IsEligible is false exactly when (a) allowed_grade is set and the
\* voter's grade, compared numerically, differs from it or is missing or
\* non-numeric, or (b) allowed_section is set, is not ALL whatever the case,
\* and the voter's section does not match it whatever the case (values are
\* compared without their surrounding blanks, a blank one counting as not
\* set); otherwise it is true; and evaluating it changes nothing else.
C20_IsEligible ==
    [][IsEligible =>
        /\ (eligible'.result = "ineligible") <=>
                \/ /\ eligible.allowed_grade # "none"
                   /\ \/ grade_number(eligible.grade_level) = NoGrade
                      \/ grade_number(eligible.grade_level) # grade_number(eligible.allowed_grade)
                \/ /\ section_restricted(eligible.allowed_section)
                   /\ ~same_section(eligible.section, eligible.allowed_section)
        /\ eligible'.result \in {"eligible", "ineligible"}
        /\ UNCHANGED <<today, elections, out, listed, syncs, users, positions, candidates,
                       records, calls, ret, adminOps>>]_vars

\* C20 witness: the election is restricted to grade 11 and section A; a voter
\* of grade 11 whose section is written in lower case has been found eligible.
C20_Witness ==
    /\ eligible # NoQuestion /\ eligible.result = "eligible"
    /\ eligible.allowed_grade = "11" /\ eligible.allowed_section = "A"
    /\ eligible.grade_level = "011" /\ eligible.section = "a "

\* -------------------------------------- claims: status engine, continued
\* C21: an election is never hard-deleted.  DeleteElection always answers a
\* failure (the refusal) and leaves every election, position, candidate and
\* voting record as it was; and no operation of the election interface makes
\* an election that exists cease to exist.
C21_NeverHardDeleted ==
    /\ [][\A id \in ElectionIds :
            DeleteElection(id)
                => /\ out' = DELETE_DISABLED
                   /\ out' # "Election deleted successfully!"
                   /\ UNCHANGED <<elections, positions, candidates, records>>]_vars
    /\ [][\A e \in ElectionIds : Exists(e) => elections'[e] # NoElection]_vars

\* C21 witness: a deletion has just been refused and the election is there.
C21_Witness ==
    /\ out = DELETE_DISABLED
    /\ \E e \in ElectionIds : Exists(e)

\* An edit of an election, with any submitted values
AnyUpdateElection ==
    \E id \in ElectionIds, start_date \in Dates, end_date \in Dates, status \in Statuses :
        UpdateElection(id, start_date, end_date, status)

\* C23: while an election has status_locked = true, no operation other than
\* SetStatus (UpdateElection, the passive sync, any read) changes its stored
\* status.
C23_FrozenWhileLocked ==
    [][(AnyUpdateElection \/ PassiveRead) =>
        \A e \in ElectionIds :
            (Exists(e) /\ elections[e].status_locked)
                => (elections'[e] # NoElection /\ elections'[e].status = elections[e].status)]_vars

\* An explicit change of status, with any arguments
AnySetStatus ==
    \E id \in ElectionIds, requested \in Statuses \cup {"ended"}, force \in BOOLEAN :
        SetStatus(id, requested, force)

\* C24: finalized is terminal for automatic transitions: once the stored
\* status of an election is finalized, the passive sync of a read never
\* changes it, on whatever day it runs; a step that takes an election out of
\* finalized is an explicit SetStatus or an edit of the election.
C24_FinalizedIsTerminal ==
    [][\A e \in ElectionIds :
        (Exists(e) /\ elections[e].status = "finalized"
            /\ elections'[e] # NoElection /\ elections'[e].status # "finalized")
                => (AnySetStatus \/ AnyUpdateElection)]_vars

\* The status the caller of CreateElection supplied, upcoming when none
supplied_status(status) == IF status = NoStatus THEN "upcoming" ELSE status

\* The step has created election id
created(id) == elections[id] = NoElection /\ elections'[id] # NoElection

\* C25 as stated: CreateElection stores the caller-supplied status as the
\* initial status, and upcoming when the caller supplies none.
C25_Original ==
    [][\A start_date \in Dates, end_date \in Dates, status \in Statuses \cup {NoStatus} :
        CreateElection(start_date, end_date, status) =>
            \A id \in ElectionIds :
                created(id) => elections'[id].status = supplied_status(status)]_vars

\* C25 amended: CreateElection stores as the initial status the status the
\* submitted dates derive for today whenever one of them is set, whatever
\* status the caller supplies; only when neither date is set does it store
\* the caller-supplied status, and upcoming when the caller supplies none.
\* The election is created unlocked, with the dates as submitted.
C25_InitialStatus ==
    [][\A start_date \in Dates, end_date \in Dates, status \in Statuses \cup {NoStatus} :
        CreateElection(start_date, end_date, status) =>
            \A id \in ElectionIds :
                created(id) =>
                    /\ elections'[id].status =
                            IF start_date # NoDate \/ end_date # NoDate
                            THEN DecisionTable(start_date, end_date, today)
                            ELSE supplied_status(status)
                    /\ ~elections'[id].status_locked
                    /\ elections'[id].start_date = start_date
                    /\ elections'[id].end_date = end_date
                    /\ out' = "Election created successfully!"]_vars

\* C25 witness: an election without dates has just been created with the
\* status finalized, which no date derives.
C25_Witness ==
    /\ out = "Election created successfully!"
    /\ \E e \in ElectionIds :
        /\ Exists(e) /\ ~elections[e].status_locked /\ elections[e].status = "finalized"
        /\ elections[e].start_date = NoDate /\ elections[e].end_date = NoDate

\* The rows a single recomputation, run alone on the stored rows, leaves
single_recomputation == sync_election_statuses(elections, ElectionIds, today)

\* C26: passive recomputation is idempotent and safe to race.  On a fixed
\* day, with recomputations of several clients interleaved in any way, the
\* query of one changes nothing, the commit of each leaves the stored rows
\* as a single recomputation run alone would leave them, and after a commit
\* a further recomputation changes nothing.
C26_RecomputationIdempotent ==
    [][ /\ (\E s \in Sessions : ListElectionsBegin(s)) => elections' = elections
        /\ (\E s \in Sessions : ListElectionsCommit(s)) =>
                /\ elections' = single_recomputation
                /\ single_recomputation' = elections' ]_vars

\* C26 witness: two recomputations raced on a stale row; the first has
\* committed the new status and the second is about to write the same one.
C26_Witness ==
    /\ out = "read" /\ syncs[1] = NoSync /\ syncs[2] # NoSync
    /\ \E e \in ElectionIds :
        /\ syncs[2].pending[e] # NoStatus
        /\ syncs[2].loaded[e] # syncs[2].pending[e]
        /\ elections[e].status = syncs[2].pending[e]

\* C28: status_locked is monotone.  Once an election has status_locked =
\* true, no step of the system (SetStatus with any arguments, UpdateElection,
\* CreateElection, the query and the commit of a passive sync, the passing of
\* a day) sets it back to false or removes the election, and every passive
\* sync that loads the election from then on assigns it no date-derived
\* status.
C28_LockIsMonotone ==
    [][\A e \in ElectionIds :
        (Exists(e) /\ elections[e].status_locked) =>
            /\ elections'[e] # NoElection /\ elections'[e].status_locked
            /\ \A s \in Sessions :
                    ListElectionsBegin(s) => syncs'[s].pending[e] = NoStatus]_vars

\* C28 witness: on day 2 a list has loaded a locked election whose dates
\* derive another status than the stored one, and has nothing to write.
C28_Witness ==
    /\ today = 2
    /\ \E e \in ElectionIds, s \in Sessions :
        /\ Exists(e) /\ elections[e].status_locked
        /\ Derived(e) # NoStatus /\ Derived(e) # elections[e].status
        /\ syncs[s] # NoSync /\ syncs[s].loaded[e] = elections[e].status
        /\ syncs[s].pending[e] = NoStatus

\* ---------------------------------------- claims: ballot core, counters
\* Number of cast records naming candidate c
cast_rows_naming(c) ==
    copies_sum(records, {r \in BagToSet(records) : r.candidate_id = c /\ r.status = "cast"})

\* Votes for c in the log that its counter does not show
uncounted(c) == cast_rows_naming(c) - candidates[c].vote_count

\* Session s has a call in flight that increments c
increments(s, c) == calls[s] # NoCall /\ cast_lines(calls[s].votes, c) > 0

\* The counter of c is not the one session s read: a call incrementing c
\* was committed while the call of s was in flight
overlapped(s, c) == increments(s, c) /\ calls[s].seen[c] # candidates[c].vote_count

\* C29: with consistent counters at the start and no row deleted, under any
\* interleaving of concurrent CastBallot and CastVote calls the vote_count
\* of a candidate never exceeds the number of cast records naming it, and
\* equals it as long as no two calls incrementing the candidate overlap:
\* the counter read by a call differs from the stored one only after another
\* call incrementing the same candidate committed during its flight, and the
\* counter falls behind the log only at the commit of such an overlapped
\* call (an update is lost, none is invented).
C29_CounterNeverAhead ==
    /\ [](\A c \in CandidateIds : candidates[c].vote_count <= cast_rows_naming(c))
    /\ [][\A c \in CandidateIds :
            /\ uncounted(c)' # uncounted(c) =>
                    /\ uncounted(c)' > uncounted(c)
                    /\ \E s \in Sessions : call_commits(s) /\ overlapped(s, c)
            /\ \A s \in Sessions :
                    (increments(s, c) /\ ~overlapped(s, c) /\ overlapped(s, c)') =>
                        \E t \in Sessions \ {s} : call_commits(t) /\ increments(t, c)
            /\ \A s \in Sessions :
                    (call_commits(s) /\ increments(s, c) /\ ~overlapped(s, c))
                        => uncounted(c)' = uncounted(c)]_vars

\* C29 witness: two calls for the same candidate overlapped; both records
\* are in the log and the counter shows one vote.
C29_Witness ==
    /\ \A s \in Sessions : calls[s] = NoCall
    /\ \E c \in CandidateIds : cast_rows_naming(c) = 2 /\ candidates[c].vote_count = 1

\* The ballot names one position (not nil) in two of its lines
repeats_position(votes) ==
    \E i, j \in DOMAIN votes :
        i # j /\ votes[i].position_id # NoId /\ votes[i].position_id = votes[j].position_id

\* C30: a CastBallot whose lines name the same non-nil position more than
\* once passes the per-line pre-check when the voter has no record for the
\* position, is refused at its commit by the uniqueness constraint, answers
\* the "already voted" rejection, creates no record and changes no
\* vote_count.
C30_RepeatedPositionRejected ==
    /\ [](\A u \in UserIds, e \in BallotElectionIds, votes \in Ballots :
            (repeats_position(votes) /\ ~has_record_in_election(records, u, e))
                => ~ballot_precheck_hit(u, e, votes))
    /\ [][\A s \in Sessions :
            (ballot_commits(s) /\ repeats_position(calls[s].votes))
                => /\ ret' = ALREADY_POSITIONS
                   /\ records' = records
                   /\ candidates' = candidates]_vars

\* C30 witness: the log is empty, no call is in flight, and the last call
\* was answered "already voted".
C30_Witness ==
    /\ ret = ALREADY_POSITIONS
    /\ records = EmptyBag
    /\ \A s \in Sessions : calls[s] = NoCall
    /\ \A c \in CandidateIds : candidates[c].vote_count = 0

\* ------------------------------------------ claims: ballot core, inputs
\* What the log alone says of a ballot: one of its lines names a position
\* the voter has a record for
log_rejects(u, e, votes) ==
    \E r \in BagToSet(records) :
        /\ r.user_id = u /\ r.election_id = e /\ r.position_id # NoId
        /\ \E i \in DOMAIN votes : votes[i].position_id = r.position_id

\* What the log and the tables of voters and candidates alone say of a call
\* at its commit: it can be written
log_accepts(call) ==
    /\ call.user_id \in users
    /\ \A i \in DOMAIN call.votes :
            /\ call.votes[i].candidate_id # NoId
                    => candidates[call.votes[i].candidate_id] # NoCandidate
            /\ call.votes[i].position_id # NoId
                    => rows_for(call.user_id, call.election_id, call.votes[i].position_id) = 0
    /\ \A i, j \in DOMAIN call.votes :
            (i # j /\ call.votes[i].position_id # NoId)
                => call.votes[i].position_id # call.votes[j].position_id

\* What the candidate table and the log alone say of a CastVote: duplicate
vote_is_duplicate(u, e, c) ==
    IF candidates[c].position_id # NoId
    THEN rows_for(u, e, candidates[c].position_id) > 0
    ELSE \E r \in BagToSet(records) : r.user_id = u /\ r.election_id = e

\* C27: CastBallot and CastVote consult only the ballot log and the
\* candidate table.  Whatever the status, the lock and the dates of the
\* election, its grade and section restrictions and the grade and section of
\* the voter, the pre-check answers from the log (and, for CastVote, the
\* candidate row) alone, the commit is accepted or refused and writes its
\* records and counters by the log and the candidate table alone, and no
\* cast step touches the election or the eligibility data: the same call
\* gives the same result and the same records in states that differ only
\* in those, so a ballot is accepted for an upcoming or finalized election
\* and for a voter who is not eligible.
C27_CastIgnoresElectionState ==
    /\ [](\A u \in UserIds, e \in BallotElectionIds, votes \in Ballots :
            ballot_precheck_hit(u, e, votes) <=> log_rejects(u, e, votes))
    /\ [][ /\ UNCHANGED <<today, elections, eligible>>
           /\ ballot_begins(1) =>
                ~log_rejects(calls'[1].user_id, calls'[1].election_id, calls'[1].votes)
           /\ \A u \in UserIds, e \in BallotElectionIds, c \in CandidateIds :
                CastVoteBegin(1, u, e, c) =>
                    IF vote_is_duplicate(u, e, c)
                    THEN calls' = calls /\ ret' \in {ALREADY_POSITION, ALREADY_ELECTION}
                    ELSE /\ calls'[1].votes = <<[position_id |-> candidates[c].position_id,
                                                  candidate_id |-> c]>>
                         /\ calls'[1].user_id = u /\ calls'[1].election_id = e
           /\ call_commits(1) =>
                IF log_accepts(calls[1])
                THEN /\ ret' \in {BALLOT_OK, VOTE_OK}
                     /\ one_record_per_line(calls[1])
                     /\ \A c \in CandidateIds :
                            candidates'[c].vote_count
                                = candidates[c].vote_count + cast_lines(calls[1].votes, c)
                ELSE /\ ret' \in {ALREADY_POSITIONS, ALREADY_POSITION}
                     /\ records' = records /\ candidates' = candidates ]_vars

\* C27 witness: election 1 is finalized and locked and does not admit the
\* voters' grade and section, and a ballot for it has just been accepted.
C27_Witness ==
    /\ ret = BALLOT_OK
    /\ elections[1].status = "finalized" /\ elections[1].status_locked
    /\ ~is_user_eligible(eligible.allowed_grade, eligible.allowed_section,
                         eligible.grade_level, eligible.section)
    /\ \E r \in BagToSet(records) : r.election_id = 1 /\ r.status = "cast"

\* ------------------------------------------------- claims: ballot status
\* C22: for every voter and election, BallotCompletionStatus reports as
\* total_positions the number of positions of the election and as
\* voted_count the number of those positions for which the voter has a
\* record (cast or spoiled); voted_count never exceeds total_positions; and
\* completed is true exactly when total_positions > 0 and
\* HasVotedForPosition is true for every position of the election.
C22_BallotCompletionStatus ==
    \A u \in UserIds, e \in BallotElectionIds :
        LET report == get_user_ballot_status(u, e)
            of_election == {p \in PositionIds : positions[p] = e}
        IN /\ report.total_positions = Cardinality(of_election)
           /\ report.voted_count =
                Cardinality({p \in of_election : rows_for(u, e, p) > 0})
           /\ report.voted_count <= report.total_positions
           /\ report.completed <=>
                (report.total_positions > 0
                    /\ \A p \in of_election : has_user_voted_position(u, e, p))

\* C22 witness: a voter has voted for one position of election 1 in election
\* 1 and for the other in election 2 only; the ballot of election 1 is
\* reported as one of two, not completed.
C22_Witness ==
    \E u \in UserIds :
        /\ rows_for(u, 1, 1) = 1 /\ rows_for(u, 2, 2) = 1 /\ rows_for(u, 1, 2) = 0
        /\ get_user_ballot_status(u, 1) =
                [total_positions |-> 2, voted_count |-> 1, completed |-> FALSE]

====
